---- MODULE Spec2Model ----
(***************************************************************************)
(* MemoPad (memopad.py): the note collection, its operations and its JSON  *)
(* persistence.  The in-memory pad is (notes, zoom, selected, dirty); the   *)
(* backing store is two files, the target path and path + ".tmp".           *)
(*                                                                          *)
(* A file holds a JSON value (a tagged record), unparseable text, or a      *)
(* document that a writer has only partly written.  Python's indexing,      *)
(* its str()/bool()/int() coercions and its exceptions are modelled as the  *)
(* interpreter performs them.                                               *)
(*                                                                          *)
(* Spec is the pad used through its methods, SpecUI the pad driven by the   *)
(* keys of its curses loop, SpecMemo the event loop of memo_pad.py.         *)
(***************************************************************************)
EXTENDS Integers, Sequences, FiniteSets, TLC

VARIABLES notes, zoom, selected, dirty, fs, pc, wdata, caller, last, pre, steps,
          memos, selected_idx, data_file, memo_pc

vars == <<notes, zoom, selected, dirty, fs, pc, wdata, caller, last, pre, steps,
          memos, selected_idx, data_file, memo_pc>>

\* The state of memo_pad.py, a program of its own: the list, the selection,
\* the content of DATA_FILE and where main is.
memoVars == <<memos, selected_idx, data_file, memo_pc>>

(* ------------------------------ bounds --------------------------------- *)

\* Operations started in one behaviour.
MaxOps == 4

\* Memos the list of memo_pad.py may hold.
MaxMemos == 3

\* Chunks in which json.dump hands a document to the file.
NChunks == 2

\* How far beyond either end of the list an index argument may lie.
IndexSlack == 1

(* ------------------------- program constants --------------------------- *)

MAX_INDENT == 8

MaxZoom == 8

(* ----------------------------- JSON values ----------------------------- *)

JNull == [t |-> "null", v |-> 0]

JInt(n) == [t |-> "int", v |-> n]

JStr(s) == [t |-> "str", v |-> s]

JBool(b) == [t |-> "bool", v |-> b]

JList(s) == [t |-> "list", v |-> s]

JDict(f) == [t |-> "dict", v |-> f]

\* isinstance(x, dict)
IsDict(x) == x.t = "dict"

\* d.get(k, dflt) on a dict
Get(d, k, dflt) == IF k \in DOMAIN d.v THEN d.v[k] ELSE dflt

Max2(a, b) == IF a >= b THEN a ELSE b

Min2(a, b) == IF a <= b THEN a ELSE b

(* --------------------------- Python coercions -------------------------- *)

\* The decimal literals int() is asked to parse in this model.
DecimalOf == ("0" :> 0) @@ ("1" :> 1) @@ ("5" :> 5) @@ ("8" :> 8) @@ ("99" :> 99) @@ ("-3" :> -3)

Digit == <<"0", "1", "2", "3", "4", "5", "6", "7", "8", "9">>

RECURSIVE NatStr(_)
NatStr(n) == IF n < 10 THEN Digit[n + 1] ELSE NatStr(n \div 10) \o Digit[(n % 10) + 1]

\* str(n) for an int
IntStr(n) == IF n < 0 THEN "-" \o NatStr(-n) ELSE NatStr(n)

\* str(x): the text of a str, the repr of anything else.
PyStr(x) ==
    CASE x.t = "str" -> x.v
      [] x.t = "int" -> IntStr(x.v)
      [] x.t = "bool" -> (IF x.v THEN "True" ELSE "False")
      [] x.t = "null" -> "None"
      [] x.t = "list" /\ x.v = <<>> -> "[]"

\* bool(x): Python truthiness.
PyBool(x) ==
    CASE x.t = "bool" -> x.v
      [] x.t = "int" -> x.v # 0
      [] x.t = "str" -> x.v # ""
      [] x.t = "null" -> FALSE
      [] x.t = "list" -> x.v # <<>>
      [] x.t = "dict" -> DOMAIN x.v # {}

\* The exception int(x) raises, "none" when it returns.
PyIntExc(x) ==
    CASE x.t \in {"int", "bool"} -> "none"
      [] x.t = "str" -> (IF x.v \in DOMAIN DecimalOf THEN "none" ELSE "ValueError")
      [] OTHER -> "TypeError"

\* int(x) where it returns.
PyInt(x) ==
    CASE x.t = "int" -> x.v
      [] x.t = "bool" -> (IF x.v THEN 1 ELSE 0)
      [] x.t = "str" -> DecimalOf[x.v]

(* -------------------------------- Note --------------------------------- *)

\* A Note object; id is the object's identity, the rest are its fields.
Note(id, text, favorite, pinned, indent) ==
    [id |-> id, text |-> text, favorite |-> favorite, pinned |-> pinned, indent |-> indent]

\* A to_dict that writes the two flags under each other's key.
to_dict_swapped(n) ==
    JDict([text |-> JStr(n.text), pinned |-> JBool(n.favorite),
           favorite |-> JBool(n.pinned), indent |-> JInt(n.indent)])

\* Note.to_dict
to_dict(n) ==
    JDict([text |-> JStr(n.text), pinned |-> JBool(n.pinned),
           favorite |-> JBool(n.favorite), indent |-> JInt(n.indent)])

\* The dataclass' field-wise equality (Note.__eq__) compares these.
Fields(n) == [text |-> n.text, favorite |-> n.favorite, pinned |-> n.pinned, indent |-> n.indent]

FieldsOf(s) == [i \in 1..Len(s) |-> Fields(s[i])]

(* -------------------------------- files -------------------------------- *)

Path == "path"

\* A save that writes to the target itself.
TmpPathIsPath == "path"

\* tmp = path + ".tmp"
TmpPath == "tmp"

Absent == [kind |-> "absent", data |-> JNull, n |-> 0]

\* A file whose text json.load cannot parse (json.JSONDecodeError).
Garbage == [kind |-> "text", data |-> JNull, n |-> 0]

\* A file whose bytes are not UTF-8 (UnicodeDecodeError, a ValueError).
Undecodable == [kind |-> "bytes", data |-> JNull, n |-> 0]

\* A complete JSON document.
Doc(d) == [kind |-> "json", data |-> d, n |-> NChunks]

\* The first k chunks of the document d, k < NChunks.
Partial(d, k) == [kind |-> "partial", data |-> d, n |-> k]

\* data = {"notes": [n.to_dict() for n in self.notes], "zoom": self.zoom}
Serialize(ns, z) ==
    JDict([notes |-> JList([i \in 1..Len(ns) |-> to_dict(ns[i])]), zoom |-> JInt(z)])

(* -------------------------------- load --------------------------------- *)

\* The body of the for loop of load, from the k-th item on: acc are the notes
\* appended so far.  Yields the notes and the exception that ended the loop.
RECURSIVE LoadItems(_, _, _)
LoadItems(items, k, acc) ==
    IF k > Len(items) THEN [notes |-> acc, exc |-> "none"]
    ELSE LET item == items[k] IN
         IF ~IsDict(item) THEN LoadItems(items, k + 1, acc)
         ELSE LET text == PyStr(Get(item, "text", JStr("")))
                  pinned == PyBool(Get(item, "pinned", JBool(FALSE)))
                  favorite == PyBool(Get(item, "favorite", JBool(FALSE)))
                  raw == Get(item, "indent", JInt(0))
              IN IF PyIntExc(raw) # "none" THEN [notes |-> acc, exc |-> PyIntExc(raw)]
                 ELSE LET indent == Max2(0, Min2(MAX_INDENT, PyInt(raw)))
                      IN LoadItems(items, k + 1,
                                   Append(acc, Note(k, text, favorite, pinned, indent)))

\* What `for item in items` iterates over: the elements of a list; the
\* characters of a str and the keys of a dict, none of which is a dict.
IterItems(items) ==
    CASE items.t = "list" -> items.v
      [] items.t = "str" -> <<>>
      [] items.t = "dict" -> <<>>

Iterable(items) == items.t \in {"list", "str", "dict"}

\* The notes load seeds an absent store with (the star that opens the third
\* text is left out).
SeedNotes ==
    <<Note(1, "Welcome to MemoPad", FALSE, FALSE, 0),
      Note(2, "Pinned: Read me first", FALSE, TRUE, 0),
      Note(3, "Sample favorite item", TRUE, FALSE, 1)>>

\* load on a store that exists, from the pad (ns, z, d): the pad it leaves
\* and the exception it raises.
LoadExisting(file, ns, z, d) ==
    IF file.kind = "bytes"
    THEN [notes |-> ns, zoom |-> z, dirty |-> d, exc |-> "UnicodeDecodeError"]
    ELSE IF file.kind # "json"
    THEN [notes |-> <<>>, zoom |-> 0, dirty |-> FALSE, exc |-> "none"]
    ELSE LET data == file.data
             items == IF IsDict(data) THEN Get(data, "notes", JList(<<>>)) ELSE JList(<<>>)
         IN IF ~Iterable(items)
            THEN [notes |-> <<>>, zoom |-> z, dirty |-> d, exc |-> "TypeError"]
            ELSE LET r == LoadItems(IterItems(items), 1, <<>>)
                     rawzoom == IF IsDict(data) THEN Get(data, "zoom", JInt(0)) ELSE JInt(0)
                 IN IF r.exc # "none"
                    THEN [notes |-> r.notes, zoom |-> z, dirty |-> d, exc |-> r.exc]
                    ELSE IF PyIntExc(rawzoom) # "none"
                    THEN [notes |-> r.notes, zoom |-> z, dirty |-> d, exc |-> PyIntExc(rawzoom)]
                    ELSE [notes |-> r.notes, zoom |-> PyInt(rawzoom), dirty |-> FALSE,
                          exc |-> "none"]

(* ----------------------------- operations ------------------------------ *)

\* The 1-based position Python's notes[i] denotes in a list of n elements,
\* 0 where it raises IndexError.
Pos(i, n) == IF 0 <= i /\ i < n THEN i + 1 ELSE IF -n <= i /\ i < 0 THEN n + i + 1 ELSE 0

\* The result of an operation: the pad it leaves, what it returns, what it raises.
Res(ns, sel, d, ret, exc) == [notes |-> ns, selected |-> sel, dirty |-> d, ret |-> ret, exc |-> exc]

Raise(ns, sel, d, exc) == Res(ns, sel, d, 0, exc)

\* A toggle_favorite that sets the flag instead of flipping it.
toggle_favorite_sets(ns, sel, d, index) ==
    LET p == Pos(index, Len(ns)) IN
    IF p = 0 THEN Raise(ns, sel, d, "IndexError")
    ELSE Res([ns EXCEPT ![p].favorite = TRUE], sel, TRUE, 0, "none")

\* A toggle_favorite that forgets to mark the pad dirty.
toggle_favorite_clean(ns, sel, d, index) ==
    LET p == Pos(index, Len(ns)) IN
    IF p = 0 THEN Raise(ns, sel, d, "IndexError")
    ELSE Res([ns EXCEPT ![p].favorite = ~ns[p].favorite], sel, d, 0, "none")

toggle_favorite(ns, sel, d, index) ==
    LET p == Pos(index, Len(ns)) IN
    IF p = 0 THEN Raise(ns, sel, d, "IndexError")
    ELSE Res([ns EXCEPT ![p].favorite = ~ns[p].favorite], sel, TRUE, 0, "none")

\* list.pop(p) for a 1-based position p
Remove(s, p) == SubSeq(s, 1, p - 1) \o SubSeq(s, p + 1, Len(s))

\* list.insert(pos, x) for a 0-based pos in 0..len
Insert(s, pos, x) == SubSeq(s, 1, pos) \o <<x>> \o SubSeq(s, pos + 1, Len(s))

\* A toggle_pin that puts the note in front of the list.
InsertPosFront(rest) == 0

\* max([i for i, n in enumerate(rest) if n.pinned] + [-1]) + 1
InsertPos(rest) ==
    LET P == {i \in 1..Len(rest) : rest[i].pinned}
    IN IF P = {} THEN 0 ELSE CHOOSE i \in P : \A j \in P : j <= i

\* A toggle_pin that appends the note instead of re-anchoring it.
toggle_pin_append(ns, sel, d, index) ==
    LET p == Pos(index, Len(ns)) IN
    IF p = 0 THEN Raise(ns, sel, d, "IndexError")
    ELSE LET note == [ns[p] EXCEPT !.pinned = ~ns[p].pinned]
             rest == Remove(ns, p)
         IN Res(Append(rest, note), Len(rest), TRUE, 0, "none")

toggle_pin(ns, sel, d, index) ==
    LET p == Pos(index, Len(ns)) IN
    IF p = 0 THEN Raise(ns, sel, d, "IndexError")
    ELSE LET note == [ns[p] EXCEPT !.pinned = ~ns[p].pinned]
             rest == Remove(ns, p)
             pos == InsertPos(rest)
         IN Res(Insert(rest, pos, note), pos, TRUE, 0, "none")

Swap(s, p, q) == [s EXCEPT ![p] = s[q], ![q] = s[p]]

\* A move_up that does not compare the pinned flags.
move_up_any(ns, sel, d, index) ==
    IF ~(index > 0) THEN Res(ns, sel, d, index, "none")
    ELSE IF Pos(index, Len(ns)) = 0 THEN Raise(ns, sel, d, "IndexError")
    ELSE Res(Swap(ns, index, index + 1), sel, TRUE, index - 1, "none")

move_up(ns, sel, d, index) ==
    IF ~(index > 0) THEN Res(ns, sel, d, index, "none")
    ELSE IF Pos(index, Len(ns)) = 0 THEN Raise(ns, sel, d, "IndexError")
    ELSE IF ns[index + 1].pinned = ns[index].pinned
    THEN Res(Swap(ns, index, index + 1), sel, TRUE, index - 1, "none")
    ELSE Res(ns, sel, d, index, "none")

\* A move_down that returns the index it was given after a swap.
move_down_same_index(ns, sel, d, index) ==
    IF ~(index < Len(ns) - 1) THEN Res(ns, sel, d, index, "none")
    ELSE LET p == Pos(index, Len(ns))
             q == Pos(index + 1, Len(ns))
         IN IF p = 0 \/ q = 0 THEN Raise(ns, sel, d, "IndexError")
            ELSE IF ns[p].pinned = ns[q].pinned
            THEN Res(Swap(ns, p, q), sel, TRUE, index, "none")
            ELSE Res(ns, sel, d, index, "none")

move_down(ns, sel, d, index) ==
    IF ~(index < Len(ns) - 1) THEN Res(ns, sel, d, index, "none")
    ELSE LET p == Pos(index, Len(ns))
             q == Pos(index + 1, Len(ns))
         IN IF p = 0 \/ q = 0 THEN Raise(ns, sel, d, "IndexError")
            ELSE IF ns[p].pinned = ns[q].pinned
            THEN Res(Swap(ns, p, q), sel, TRUE, index + 1, "none")
            ELSE Res(ns, sel, d, index, "none")

move_left(ns, sel, d, index) ==
    LET p == Pos(index, Len(ns)) IN
    IF p = 0 THEN Raise(ns, sel, d, "IndexError")
    ELSE Res([ns EXCEPT ![p].indent = Max2(0, ns[p].indent - 1)], sel, TRUE, 0, "none")

\* A move_right without the ceiling.
move_right_unclamped(ns, sel, d, index) ==
    LET p == Pos(index, Len(ns)) IN
    IF p = 0 THEN Raise(ns, sel, d, "IndexError")
    ELSE Res([ns EXCEPT ![p].indent = ns[p].indent + 1], sel, TRUE, 0, "none")

move_right(ns, sel, d, index) ==
    LET p == Pos(index, Len(ns)) IN
    IF p = 0 THEN Raise(ns, sel, d, "IndexError")
    ELSE Res([ns EXCEPT ![p].indent = Min2(MAX_INDENT, ns[p].indent + 1)], sel, TRUE, 0, "none")

zoom_in(z) == Min2(z + 1, MaxZoom)

zoom_out(z) == Max2(z - 1, 0)

(* ------------------------- the stores at start-up ---------------------- *)

\* One entry of the "notes" array with all four keys.
Entry(text, pinned, favorite, indent) ==
    JDict([text |-> text, pinned |-> pinned, favorite |-> favorite, indent |-> indent])

\* A well-typed entry.
E(text, pinned, favorite, indent) ==
    Entry(JStr(text), JBool(pinned), JBool(favorite), JInt(indent))

Store(ns, z) == Doc(JDict([notes |-> ns, zoom |-> z]))

\* The contents the store may hold when the program starts.
InitialStores ==
    << Absent,
       Garbage,
       Undecodable,
       \* well-formed, pinned notes first
       Store(JList(<<E("a", TRUE, FALSE, 0), E("b", FALSE, FALSE, 8), E("c", FALSE, TRUE, 1)>>), JInt(0)),
       Store(JList(<<E("a", TRUE, FALSE, 0), E("b", TRUE, TRUE, 2), E("c", FALSE, FALSE, 0)>>), JInt(8)),
       \* two notes that differ in the pinned flag only
       Store(JList(<<E("a", TRUE, FALSE, 0), E("a", FALSE, FALSE, 0)>>), JInt(1)),
       \* all unpinned
       Store(JList(<<E("a", FALSE, FALSE, 0), E("b", FALSE, FALSE, 0), E("c", FALSE, FALSE, 0)>>), JInt(0)),
       \* well-formed, a pinned note after an unpinned one
       Store(JList(<<E("a", FALSE, FALSE, 0), E("b", TRUE, FALSE, 0)>>), JInt(0)),
       \* values out of range
       Store(JList(<<E("a", FALSE, FALSE, 99), E("b", FALSE, FALSE, -3)>>), JInt(99)),
       Store(JList(<<>>), JInt(-2)),
       \* keys missing, other types that coerce, entries that are not objects
       Store(JList(<<JStr("junk"), JDict([text |-> JStr("a")]), JInt(7),
                     Entry(JInt(5), JInt(1), JNull, JStr("5")),
                     Entry(JNull, JStr(""), JList(<<JInt(1)>>), JBool(TRUE))>>), JStr("8")),
       Doc(JDict([other |-> JInt(1)])),
       \* the wrong shape
       Doc(JList(<<JInt(1), JInt(2)>>)),
       Doc(JDict([notes |-> JStr("not-a-list")])),
       Doc(JDict([notes |-> JStr("not-a-list"), zoom |-> JInt(3)])),
       Doc(JDict([notes |-> JInt(5)])),
       Doc(JDict([notes |-> JNull, zoom |-> JInt(0)])),
       Store(JList(<<E("a", FALSE, FALSE, 0)>>), JStr("abc")),
       Store(JList(<<E("a", FALSE, FALSE, 0)>>), JNull),
       \* an entry whose indent is not a number
       Store(JList(<<E("a", FALSE, FALSE, 0), Entry(JStr("b"), JBool(FALSE), JBool(FALSE), JStr("x")),
                     E("c", FALSE, FALSE, 0)>>), JInt(0)),
       Store(JList(<<Entry(JStr("a"), JBool(FALSE), JBool(FALSE), JNull)>>), JInt(0)) >>

(* ------------------------------ the state ------------------------------ *)

\* What the last operation was, its index argument, and how it ended.
Last(op, index, ret, exc) == [op |-> op, index |-> index, ret |-> ret, exc |-> exc]

\* The pad and the store as the operation under way (or last run) found them;
\* saved tells that a save had just returned.
Snapshot == [notes |-> notes, zoom |-> zoom, selected |-> selected, dirty |-> dirty,
             store |-> fs[Path],
             saved |-> (pc = "ready" /\ last.op = "save" /\ last.exc = "none")]

\* memo_pad.py is not running.
MemoOff ==
    /\ memos = <<>>
    /\ selected_idx = 0
    /\ data_file = [exists |-> FALSE, memos |-> <<>>]
    /\ memo_pc = "off"

\* MemoPad.__init__ up to the call of load.
Init ==
    /\ MemoOff
    /\ notes = <<>>
    /\ zoom = 0
    /\ selected = 0
    /\ dirty = FALSE
    /\ \E k \in 1..Len(InitialStores) : fs = [path |-> InitialStores[k], tmp |-> Absent]
    /\ pc = "new"
    /\ wdata = JNull
    /\ caller = "none"
    /\ last = Last("init", 0, 0, "none")
    /\ pre = [notes |-> <<>>, zoom |-> 0, selected |-> 0, dirty |-> FALSE, store |-> Absent,
              saved |-> FALSE]
    /\ steps = 0

\* The index arguments tried on a list of n notes.
Indices(n) == (-(n + IndexSlack))..(n + IndexSlack - 1)

(* -------------------------------- save --------------------------------- *)

\* save up to open(tmp, "w"): the document is built and the temporary file is
\* created empty, or open raises.
OpenTmp(ns, z, who, opened) ==
    /\ wdata' = Serialize(ns, z)
    /\ IF opened
       THEN /\ fs' = [fs EXCEPT ![TmpPath] = Partial(Serialize(ns, z), 0)]
            /\ pc' = "save_write"
            /\ caller' = who
            /\ last' = Last(who, 0, 0, "none")
       ELSE /\ fs' = fs
            /\ pc' = IF who = "load" THEN "failed" ELSE "ready"
            /\ caller' = "none"
            /\ last' = Last(who, 0, 0, "OSError")

\* pad.save()
SaveBegin ==
    /\ pc = "ready"
    /\ steps < MaxOps
    /\ steps' = steps + 1
    /\ pre' = Snapshot
    /\ \E opened \in BOOLEAN : OpenTmp(notes, zoom, "save", opened)
    /\ UNCHANGED <<notes, zoom, selected, dirty>>
    /\ UNCHANGED memoVars

\* json.dump writes the next chunk; after the last one the file is closed.
SaveWrite ==
    /\ pc = "save_write"
    /\ LET k == fs[TmpPath].n + 1 IN
       IF k < NChunks
       THEN /\ fs' = [fs EXCEPT ![TmpPath] = Partial(wdata, k)]
            /\ pc' = pc
       ELSE /\ fs' = [fs EXCEPT ![TmpPath] = Doc(wdata)]
            /\ pc' = "save_replace"
    /\ UNCHANGED <<notes, zoom, selected, dirty, wdata, caller, last, pre, steps>>
    /\ UNCHANGED memoVars

\* os.replace(tmp, path), then self.dirty = False; in load, line 119 follows.
SaveReplace ==
    /\ pc = "save_replace"
    /\ fs' = [fs EXCEPT ![Path] = fs[TmpPath], ![TmpPath] = Absent]
    /\ dirty' = FALSE
    /\ pc' = "ready"
    /\ caller' = "none"
    /\ last' = Last(caller, 0, 0, "none")
    /\ UNCHANGED <<notes, zoom, selected, wdata, pre, steps>>
    /\ UNCHANGED memoVars

\* A save that clears dirty whether or not the store was written.
SaveFailClearsDirty ==
    /\ pc \in {"save_write", "save_replace"}
    /\ pc' = IF caller = "load" THEN "failed" ELSE "ready"
    /\ caller' = "none"
    /\ last' = Last(caller, 0, 0, "OSError")
    /\ dirty' = FALSE
    /\ UNCHANGED <<notes, zoom, selected, fs, wdata, pre, steps>>
    /\ UNCHANGED memoVars

\* The write or the replace raises OSError, which save and load let through.
SaveFail ==
    /\ pc \in {"save_write", "save_replace"}
    /\ pc' = IF caller = "load" THEN "failed" ELSE "ready"
    /\ caller' = "none"
    /\ last' = Last(caller, 0, 0, "OSError")
    /\ UNCHANGED <<notes, zoom, selected, dirty, fs, wdata, pre, steps>>
    /\ UNCHANGED memoVars

(* ------------------------------- actions ------------------------------- *)

\* A load that seeds the notes of an absent store and does not write them.
ConstructNoPersist ==
    /\ steps < MaxOps
    /\ steps' = steps + 1
    /\ pre' = Snapshot
    /\ selected' = 0
    /\ UNCHANGED memoVars
    /\ LET r == IF fs[Path].kind = "absent"
                THEN [notes |-> SeedNotes, zoom |-> 0, dirty |-> FALSE, exc |-> "none"]
                ELSE LoadExisting(fs[Path], <<>>, 0, FALSE) IN
       /\ notes' = r.notes
       /\ zoom' = r.zoom
       /\ dirty' = r.dirty
       /\ pc' = IF r.exc = "none" THEN "ready" ELSE "failed"
       /\ last' = Last("load", 0, 0, r.exc)
       /\ caller' = "none"
       /\ UNCHANGED <<fs, wdata>>

\* MemoPad(path): a new pad over the store, in a process of its own.
Construct ==
    /\ steps < MaxOps
    /\ steps' = steps + 1
    /\ pre' = Snapshot
    /\ selected' = 0
    /\ UNCHANGED memoVars
    /\ IF fs[Path].kind = "absent"
       THEN /\ notes' = SeedNotes
            /\ zoom' = 0
            /\ dirty' = FALSE
            /\ \E opened \in BOOLEAN : OpenTmp(SeedNotes, 0, "load", opened)
       ELSE LET r == LoadExisting(fs[Path], <<>>, 0, FALSE) IN
            /\ notes' = r.notes
            /\ zoom' = r.zoom
            /\ dirty' = r.dirty
            /\ pc' = IF r.exc = "none" THEN "ready" ELSE "failed"
            /\ last' = Last("load", 0, 0, r.exc)
            /\ caller' = "none"
            /\ UNCHANGED <<fs, wdata>>

\* An operation on a note: op is the method, r what it yields on this pad.
Apply(op, index, r) ==
    /\ pc = "ready"
    /\ steps < MaxOps
    /\ steps' = steps + 1
    /\ pre' = Snapshot
    /\ notes' = r.notes
    /\ selected' = r.selected
    /\ dirty' = r.dirty
    /\ last' = Last(op, index, r.ret, r.exc)
    /\ UNCHANGED <<zoom, fs, pc, wdata, caller>>
    /\ UNCHANGED memoVars

ToggleFavorite ==
    \E i \in Indices(Len(notes)) : Apply("toggle_favorite", i, toggle_favorite(notes, selected, dirty, i))

TogglePin ==
    \E i \in Indices(Len(notes)) : Apply("toggle_pin", i, toggle_pin(notes, selected, dirty, i))

MoveUp ==
    \E i \in Indices(Len(notes)) : Apply("move_up", i, move_up(notes, selected, dirty, i))

MoveDown ==
    \E i \in Indices(Len(notes)) : Apply("move_down", i, move_down(notes, selected, dirty, i))

MoveLeft ==
    \E i \in Indices(Len(notes)) : Apply("move_left", i, move_left(notes, selected, dirty, i))

MoveRight ==
    \E i \in Indices(Len(notes)) : Apply("move_right", i, move_right(notes, selected, dirty, i))

Zoom(op, z) ==
    /\ pc = "ready"
    /\ steps < MaxOps
    /\ steps' = steps + 1
    /\ pre' = Snapshot
    /\ zoom' = z
    /\ dirty' = TRUE
    /\ last' = Last(op, 0, 0, "none")
    /\ UNCHANGED <<notes, selected, fs, pc, wdata, caller>>
    /\ UNCHANGED memoVars

ZoomIn == Zoom("zoom_in", zoom_in(zoom))

ZoomOut == Zoom("zoom_out", zoom_out(zoom))

Next ==
    \/ Construct
    \/ SaveBegin
    \/ SaveWrite
    \/ SaveReplace
    \/ SaveFail
    \/ ToggleFavorite
    \/ TogglePin
    \/ MoveUp
    \/ MoveDown
    \/ MoveLeft
    \/ MoveRight
    \/ ZoomIn
    \/ ZoomOut

Spec == Init /\ [][Next]_vars

(* --------------------------- the curses loop --------------------------- *)
(* _curses_main: each iteration reads the window size and one key and runs *)
(* the key's handler.  pc = "ready" is the loop waiting for a key, "exited" *)
(* the loop left by break, "crashed" an exception leaving run().  Drawing   *)
(* and self.scroll are display only and are left out.                       *)

\* The window sizes (h, w) getmaxyx is seen to return.
WindowSizes == <<(<<24, 80>>), (<<2, 80>>), (<<24, 19>>)>>

\* h < 3 or w < 20
TooSmall(sz) == sz[1] < 3 \/ sz[2] < 20

\* The loop draws the pad: the window read by this iteration is large enough.
Drawn == \E k \in 1..Len(WindowSizes) : ~TooSmall(WindowSizes[k])

\* A key arrives at the loop.
Key(op) ==
    /\ pc = "ready"
    /\ steps < MaxOps
    /\ steps' = steps + 1
    /\ pre' = Snapshot
    /\ last' = Last(op, selected, 0, "none")
    /\ UNCHANGED memoVars

\* self.save(self.path) run to its end: k = 0 open raises, k in 1..NChunks the
\* write raises after k - 1 chunks, k = NChunks + 1 os.replace raises,
\* k = NChunks + 2 the store is replaced and dirty cleared.  Then `break`.
SaveAndBreak(op, k) ==
    /\ pc = "ready"
    /\ steps < MaxOps
    /\ steps' = steps + 1
    /\ pre' = Snapshot
    /\ wdata' = Serialize(notes, zoom)
    /\ fs' = IF k = 0 THEN fs
             ELSE IF k <= NChunks THEN [fs EXCEPT ![TmpPath] = Partial(Serialize(notes, zoom), k - 1)]
             ELSE IF k = NChunks + 1 THEN [fs EXCEPT ![TmpPath] = Doc(Serialize(notes, zoom))]
             ELSE [fs EXCEPT ![Path] = Doc(Serialize(notes, zoom)), ![TmpPath] = Absent]
    /\ dirty' = IF k = NChunks + 2 THEN FALSE ELSE dirty
    /\ pc' = IF k = NChunks + 2 THEN "exited" ELSE "crashed"
    /\ last' = Last(op, selected, 0, IF k = NChunks + 2 THEN "none" ELSE "OSError")
    /\ UNCHANGED <<notes, zoom, selected, caller>>
    /\ UNCHANGED memoVars

\* `break` without a save.
Break(op) ==
    /\ Key(op)
    /\ pc' = "exited"
    /\ UNCHANGED <<notes, zoom, selected, dirty, fs, wdata, caller>>

\* Ctrl+Q (17): in a window too small to draw, break; else save, then break.
KeyCtrlQ ==
    \E w \in 1..Len(WindowSizes) :
        IF TooSmall(WindowSizes[w])
        THEN Break("ctrl_q")
        ELSE \E k \in 0..(NChunks + 2) : SaveAndBreak("ctrl_q", k)

\* KEY_RESIZE, a key the loop does not know, any key but Ctrl+Q in a window
\* too small, an Alt key or an arrow on an empty pad: `continue`.
KeyIgnored ==
    /\ Key("ignored")
    /\ UNCHANGED <<notes, zoom, selected, dirty, fs, pc, wdata, caller>>

\* Ctrl+W (23)
KeyCtrlW ==
    /\ Drawn
    /\ Key("ctrl_w")
    /\ zoom' = zoom_in(zoom)
    /\ dirty' = TRUE
    /\ UNCHANGED <<notes, selected, fs, pc, wdata, caller>>

\* Ctrl+S (19)
KeyCtrlS ==
    /\ Drawn
    /\ Key("ctrl_s")
    /\ zoom' = zoom_out(zoom)
    /\ dirty' = TRUE
    /\ UNCHANGED <<notes, selected, fs, pc, wdata, caller>>

\* KEY_UP or k
KeyUp ==
    /\ Drawn
    /\ notes # <<>>
    /\ Key("up")
    /\ selected' = Max2(0, selected - 1)
    /\ UNCHANGED <<notes, zoom, dirty, fs, pc, wdata, caller>>

\* KEY_DOWN or j
KeyDown ==
    /\ Drawn
    /\ notes # <<>>
    /\ Key("down")
    /\ selected' = Min2(Len(notes) - 1, selected + 1)
    /\ UNCHANGED <<notes, zoom, dirty, fs, pc, wdata, caller>>

\* ESC alone (27, then no key waiting): break if the pad is clean.
KeyEscClean ==
    /\ Drawn
    /\ ~dirty
    /\ Break("esc")

\* ESC alone on a dirty pad, _prompt_save: y saves and breaks, n breaks,
\* another key goes on with the loop.
KeyEscDirty ==
    /\ Drawn
    /\ dirty
    /\ \/ \E k \in 0..(NChunks + 2) : SaveAndBreak("esc_y", k)
       \/ Break("esc_n")
       \/ /\ Key("esc_other")
          /\ UNCHANGED <<notes, zoom, selected, dirty, fs, pc, wdata, caller>>

\* notes.index(x) where x is in notes: the 0-based index of the first note
\* that is x or equals it field by field.
ListIndex(ns, x) ==
    LET F == {k \in 1..Len(ns) : ns[k].id = x.id \/ Fields(ns[k]) = Fields(x)}
    IN (CHOOSE k \in F : \A j \in F : k <= j) - 1

\* _handle_alt on a pad with notes: r is what the method called yields, sel
\* the index the handler then assigns to self.selected.
Alt(op, r, sel) ==
    /\ Drawn
    /\ notes # <<>>
    /\ Key(op)
    /\ notes' = r.notes
    /\ dirty' = r.dirty
    /\ selected' = sel
    /\ UNCHANGED <<zoom, fs, pc, wdata, caller>>

\* Alt+o
AltO ==
    LET r == toggle_favorite(notes, selected, dirty, selected) IN Alt("alt_o", r, r.selected)

\* Alt+p: note = self.notes[self.selected]; toggle_pin; selected = index(note)
AltP ==
    LET r == toggle_pin(notes, selected, dirty, selected)
        note == [notes[selected + 1] EXCEPT !.pinned = ~notes[selected + 1].pinned]
    IN Alt("alt_p", r, ListIndex(r.notes, note))

\* Alt+w
AltW ==
    LET r == move_up(notes, selected, dirty, selected) IN Alt("alt_w", r, r.ret)

\* Alt+s
AltS ==
    LET r == move_down(notes, selected, dirty, selected) IN Alt("alt_s", r, r.ret)

\* Alt+a
AltA ==
    LET r == move_left(notes, selected, dirty, selected) IN Alt("alt_a", r, r.selected)

\* Alt+d
AltD ==
    LET r == move_right(notes, selected, dirty, selected) IN Alt("alt_d", r, r.selected)

\* MemoPad().run(): the pad is constructed and the loop handles keys.
NextUI ==
    \/ Construct
    \/ SaveWrite
    \/ SaveReplace
    \/ SaveFail
    \/ KeyCtrlQ
    \/ KeyIgnored
    \/ KeyCtrlW
    \/ KeyCtrlS
    \/ KeyUp
    \/ KeyDown
    \/ KeyEscClean
    \/ KeyEscDirty
    \/ AltO
    \/ AltP
    \/ AltW
    \/ AltS
    \/ AltA
    \/ AltD

SpecUI == Init /\ [][NextUI]_vars

(* ------------------------------ memo_pad.py ---------------------------- *)
(* main of memo_pad.py: memos is the list, selected_idx the selection,      *)
(* data_file the content of DATA_FILE.  memo_pc is "loop" while main waits  *)
(* for a key, "done" after q, "crashed" after an exception.  last.index     *)
(* holds selected_idx as the key found it.                                  *)

\* The texts get_user_input returns; "" is an empty line.
MemoTexts == <<"", "x", "y">>

\* What DATA_FILE holds: memos is the list json.load gives.
DataFile(ms) == [exists |-> TRUE, memos |-> ms]

\* The lists DATA_FILE may hold at start-up.
InitialMemos ==
    << <<>>, <<"x">>, <<"x", "y">>, <<"y", "x", "x">> >>

\* load_memos()
load_memos(file) == IF ~file.exists THEN <<>> ELSE file.memos

\* main up to the loop: memos = load_memos(); selected_idx = 0.  MemoPad is
\* not running.
InitMemo ==
    /\ \E k \in 0..Len(InitialMemos) :
          data_file = IF k = 0 THEN [exists |-> FALSE, memos |-> <<>>]
                      ELSE DataFile(InitialMemos[k])
    /\ memos = load_memos(data_file)
    /\ selected_idx = 0
    /\ memo_pc = "loop"
    /\ notes = <<>>
    /\ zoom = 0
    /\ selected = 0
    /\ dirty = FALSE
    /\ fs = [path |-> Absent, tmp |-> Absent]
    /\ pc = "new"
    /\ wdata = JNull
    /\ caller = "none"
    /\ last = Last("init", 0, 0, "none")
    /\ pre = [notes |-> <<>>, zoom |-> 0, selected |-> 0, dirty |-> FALSE, store |-> Absent,
              saved |-> FALSE]
    /\ steps = 0

padVars == <<notes, zoom, selected, dirty, fs, pc, wdata, caller, pre, steps>>

\* A key arrives at the loop of main.
MemoKey(op) ==
    /\ memo_pc = "loop"
    /\ last' = Last(op, selected_idx, Len(memos), "none")
    /\ UNCHANGED padVars

\* q or Q
MemoQuit ==
    /\ MemoKey("memo_quit")
    /\ memo_pc' = "done"
    /\ UNCHANGED <<memos, selected_idx, data_file>>

\* KEY_DOWN or j, with memos
MemoDown ==
    /\ memos # <<>>
    /\ MemoKey("memo_down")
    /\ selected_idx' = (selected_idx + 1) % Len(memos)
    /\ UNCHANGED <<memos, data_file, memo_pc>>

\* KEY_UP or k, with memos
MemoUp ==
    /\ memos # <<>>
    /\ MemoKey("memo_up")
    /\ selected_idx' = (selected_idx - 1) % Len(memos)
    /\ UNCHANGED <<memos, data_file, memo_pc>>

\* save_memos(ms): the file is rewritten, or open or the write raises and
\* leaves it as it was or cut short.
SaveMemos(ms, ok) ==
    IF ok THEN data_file' = DataFile(ms)
    ELSE data_file' \in {data_file, DataFile(<<>>)}

\* a or A: an empty text changes nothing; another is appended, saved and
\* selected.
MemoAdd ==
    /\ Len(memos) < MaxMemos
    /\ \E t \in 1..Len(MemoTexts) :
          IF MemoTexts[t] = ""
          THEN /\ MemoKey("memo_add_empty")
               /\ UNCHANGED <<memos, selected_idx, data_file, memo_pc>>
          ELSE \E ok \in BOOLEAN :
               /\ memo_pc = "loop"
               /\ memos' = Append(memos, MemoTexts[t])
               /\ SaveMemos(memos', ok)
               /\ selected_idx' = IF ok THEN Len(memos') - 1 ELSE selected_idx
               /\ memo_pc' = IF ok THEN "loop" ELSE "crashed"
               /\ last' = Last("memo_add", selected_idx, Len(memos),
                               IF ok THEN "none" ELSE "OSError")
               /\ UNCHANGED padVars

\* A delete that leaves selected_idx as it was.
AfterDeleteStale(sel, n) == sel

\* if selected_idx >= len(memos): selected_idx = max(0, len(memos) - 1)
AfterDelete(sel, n) == IF sel >= n THEN Max2(0, n - 1) ELSE sel

\* d or D, with memos: del memos[selected_idx], save, adjust the selection.
MemoDelete ==
    /\ memos # <<>>
    /\ memo_pc = "loop"
    /\ UNCHANGED padVars
    /\ LET p == Pos(selected_idx, Len(memos)) IN
       IF p = 0
       THEN /\ memo_pc' = "crashed"
            /\ last' = Last("memo_delete", selected_idx, Len(memos), "IndexError")
            /\ UNCHANGED <<memos, selected_idx, data_file>>
       ELSE \E ok \in BOOLEAN :
            /\ memos' = Remove(memos, p)
            /\ SaveMemos(memos', ok)
            /\ selected_idx' = IF ok THEN AfterDelete(selected_idx, Len(memos'))
                               ELSE selected_idx
            /\ memo_pc' = IF ok THEN "loop" ELSE "crashed"
            /\ last' = Last("memo_delete", selected_idx, Len(memos),
                            IF ok THEN "none" ELSE "OSError")

NextMemo ==
    \/ MemoQuit
    \/ MemoDown
    \/ MemoUp
    \/ MemoAdd
    \/ MemoDelete

SpecMemo == InitMemo /\ [][NextMemo]_vars

(* ------------------------------ properties ----------------------------- *)

\* No unpinned note precedes a pinned one.
PinnedPrefix(ns) == \A i, j \in 1..Len(ns) : (i < j /\ ns[j].pinned) => ns[i].pinned

\* The last operation was op, called with an index inside [0, len(notes)).
Called(op) == last.op = op /\ 0 <= last.index /\ last.index < Len(pre.notes)

\* The 1-based position of the note the last operation was called on.
At == last.index + 1

\* The 1-based positions of the note object with identity id.
Where(ns, id) == {k \in 1..Len(ns) : ns[k].id = id}

\* C1: in every state of a constructed pad -- after load and after any
\* sequence of operations -- the pinned notes are a prefix of notes.
C1_PinnedPrefixAlways == pc = "ready" => PinnedPrefix(notes)

\* C2 as stated: toggle_pin on an unpinned note at a valid index leaves it
\* pinned at index 0, ahead of every previously pinned note.
C2_PinnedNoteGoesFirst ==
    (Called("toggle_pin") /\ ~pre.notes[At].pinned)
        => (notes[1].id = pre.notes[At].id /\ notes[1].pinned)

\* C2 amended: toggle_pin on an unpinned note at a valid index leaves it
\* pinned immediately after the last previously pinned note: every note that
\* was pinned before the call precedes it, and it sits at index 0 exactly when
\* no other note is pinned.
C2_PinnedNoteGoesLast ==
    (Called("toggle_pin") /\ ~pre.notes[At].pinned)
        => \E k \in 1..Len(notes) :
              /\ Where(notes, pre.notes[At].id) = {k}
              /\ notes[k].pinned
              /\ last.exc = "none"
              /\ \A j \in 1..Len(notes) : (j # k /\ notes[j].pinned) => j < k
              /\ k > 1 => notes[k - 1].pinned
              /\ (k = 1) <=> (\A j \in 1..Len(pre.notes) : ~pre.notes[j].pinned)

\* A pad with a pinned note in which toggle_pin has pinned another note.
C2_Witness ==
    /\ Called("toggle_pin")
    /\ ~pre.notes[At].pinned
    /\ \E j \in 1..Len(pre.notes) : pre.notes[j].pinned
    /\ notes[1].id # pre.notes[At].id

\* C3: on a pad whose pinned notes are a prefix, toggle_pin(i) for a valid i
\* flips notes[i].pinned only, takes the note out and puts it back right after
\* the pinned notes that remain (at 0 if there is none), leaves the other notes
\* and their order as they were, keeps the pinned notes a prefix, and makes a
\* note it unpinned the first of the unpinned ones.
C3_BoundaryReanchoring ==
    (Called("toggle_pin") /\ PinnedPrefix(pre.notes))
        => LET old == pre.notes[At]
               rest == Remove(pre.notes, At)
               k == Cardinality({j \in 1..Len(rest) : rest[j].pinned})
           IN /\ last.exc = "none"
              /\ Len(notes) = Len(pre.notes)
              /\ notes[k + 1] = [old EXCEPT !.pinned = ~old.pinned]
              /\ Remove(notes, k + 1) = rest
              /\ PinnedPrefix(notes)
              /\ \A j \in 1..k : notes[j].pinned
              /\ \A j \in (k + 2)..Len(notes) : ~notes[j].pinned
              /\ zoom = pre.zoom

\* toggle_pin has unpinned the first of several pinned notes, which moved.
C3_Witness ==
    /\ Called("toggle_pin")
    /\ PinnedPrefix(pre.notes)
    /\ pre.notes[At].pinned
    /\ At = 1
    /\ Len(notes) = 3
    /\ notes[1].pinned
    /\ notes[2].id = pre.notes[1].id
    /\ ~notes[2].pinned
    /\ ~notes[3].pinned

\* The pinned flags, position by position.
Flags(ns) == [i \in 1..Len(ns) |-> ns[i].pinned]

\* C4: move_up(i) and move_down(i) for a valid i swap the note with its
\* neighbour only if there is one and it has the same pinned flag; a swap
\* returns the note's new index and sets dirty and moves no other note; no swap
\* returns i and leaves notes, zoom and dirty alone.  The pinned flags stay
\* where they are.
C4_MoveStaysInGroup ==
    /\ Called("move_up") =>
          /\ last.exc = "none"
          /\ zoom = pre.zoom
          /\ Flags(notes) = Flags(pre.notes)
          /\ IF At > 1 /\ pre.notes[At].pinned = pre.notes[At - 1].pinned
             THEN /\ notes = Swap(pre.notes, At, At - 1)
                  /\ last.ret = last.index - 1
                  /\ dirty
             ELSE /\ notes = pre.notes
                  /\ last.ret = last.index
                  /\ dirty = pre.dirty
    /\ Called("move_down") =>
          /\ last.exc = "none"
          /\ zoom = pre.zoom
          /\ Flags(notes) = Flags(pre.notes)
          /\ IF At < Len(pre.notes) /\ pre.notes[At].pinned = pre.notes[At + 1].pinned
             THEN /\ notes = Swap(pre.notes, At, At + 1)
                  /\ last.ret = last.index + 1
                  /\ dirty
             ELSE /\ notes = pre.notes
                  /\ last.ret = last.index
                  /\ dirty = pre.dirty

\* move_up was called on the first unpinned note of a pad with a pinned note
\* above it, and nothing moved.
C4_Witness ==
    /\ Called("move_up")
    /\ At > 1
    /\ pre.notes[At - 1].pinned
    /\ ~pre.notes[At].pinned
    /\ notes = pre.notes
    /\ last.ret = last.index
    /\ ~dirty

\* C5: save followed by a fresh load from the same store gives a note
\* sequence equal to the saved one, field by field and in order, the same
\* zoom, and dirty = false.
C5_RoundTrip ==
    (last.op = "load" /\ pre.saved)
        => /\ pc = "ready"
           /\ last.exc = "none"
           /\ FieldsOf(notes) = FieldsOf(pre.notes)
           /\ zoom = pre.zoom
           /\ ~dirty

\* A pad with pinned, favourite and indented notes and a zoom was changed,
\* saved, and loaded again.
C5_Witness ==
    /\ last.op = "load"
    /\ pre.saved
    /\ pre.store # InitialStores[5]
    /\ Len(notes) = 3
    /\ zoom > 0
    /\ \E i \in 1..Len(notes) : notes[i].pinned /\ ~notes[i].favorite
    /\ \E i \in 1..Len(notes) : notes[i].favorite /\ notes[i].indent > 0

\* A store that is not a JSON object whose "notes" is a list.
Malformed(file) ==
    \/ file.kind # "json"
    \/ ~IsDict(file.data)
    \/ Get(file.data, "notes", JList(<<>>)).t # "list"

\* C6: load of an existing store never raises, whatever the store holds; a
\* malformed store gives an empty pad with zoom 0 that is not dirty.
C6_LoadNeverRaises ==
    (last.op = "load" /\ pre.store.kind # "absent")
        => /\ last.exc = "none"
           /\ Malformed(pre.store) => (notes = <<>> /\ zoom = 0 /\ ~dirty)

IndexOps == {"toggle_favorite", "toggle_pin", "move_up", "move_down", "move_left", "move_right"}

\* C7: an index outside [0, len(notes)) makes each of the six index-taking
\* operations raise an out-of-range error and leave notes, zoom and dirty alone.
C7_OutOfRangeRaises ==
    (last.op \in IndexOps /\ (last.index < 0 \/ last.index >= Len(pre.notes)))
        => /\ last.exc = "IndexError"
           /\ notes = pre.notes
           /\ zoom = pre.zoom
           /\ dirty = pre.dirty

\* C8: save clears dirty only after the write and the replace succeeded; while
\* it runs and when it fails, notes, zoom and dirty are what they were, the
\* error reaches the caller, and the pad is ready for another save.
C8_SaveFailureKeepsDirty ==
    /\ (last.op = "save" /\ pc \in {"save_write", "save_replace"})
          => (notes = pre.notes /\ zoom = pre.zoom /\ dirty = pre.dirty)
    /\ (last.op = "save" /\ pc = "ready" /\ last.exc # "none")
          => (notes = pre.notes /\ zoom = pre.zoom /\ dirty = pre.dirty /\ fs[Path] = pre.store)
    /\ (last.op = "save" /\ pc = "ready" /\ last.exc = "none")
          => (notes = pre.notes /\ zoom = pre.zoom /\ ~dirty
              /\ fs[Path] = Doc(Serialize(notes, zoom)))
    /\ last.op = "save" => pc \in {"ready", "save_write", "save_replace"}

\* save of a dirty pad failed while the temporary file was half written.
C8_Witness ==
    /\ last.op = "save"
    /\ last.exc = "OSError"
    /\ pc = "ready"
    /\ pre.dirty
    /\ dirty
    /\ fs[TmpPath].kind = "partial"
    /\ fs[TmpPath].n > 0
    /\ fs[Path] # Doc(Serialize(notes, zoom))

\* C9: the target path never holds a partly written document: while save
\* runs, after it fails, after a new process starts in the middle of it and
\* after it returns, the target holds what it held before or the whole new
\* document.
C9_AtomicSave ==
    /\ fs[Path].kind # "partial"
    /\ last.op \in {"save", "load"} => (fs[Path] = pre.store \/ fs[Path] = Doc(wdata))

\* The temporary file is half written and the target still holds the whole
\* document saved before, which differs from the one being written.
C9_Witness ==
    /\ pc = "save_write"
    /\ last.op = "save"
    /\ fs[TmpPath].kind = "partial"
    /\ fs[TmpPath].n > 0
    /\ fs[Path].kind = "json"
    /\ fs[Path] # Doc(wdata)
    /\ fs[Path] = pre.store

\* C10: every note's indent is in [0, MAX_INDENT] in every state, and
\* move_left and move_right with a valid index move it by one inside that
\* range without raising.
C10_IndentRange ==
    /\ \A i \in 1..Len(notes) : notes[i].indent \in 0..MAX_INDENT
    /\ Called("move_left") =>
          (last.exc = "none" /\ notes[At].indent = Max2(0, pre.notes[At].indent - 1))
    /\ Called("move_right") =>
          (last.exc = "none" /\ notes[At].indent = Min2(MAX_INDENT, pre.notes[At].indent + 1))

\* move_right was called on a note whose indent was MAX_INDENT already.
C10_Witness ==
    /\ Called("move_right")
    /\ pre.notes[At].indent = MAX_INDENT
    /\ notes[At].indent = MAX_INDENT
    /\ last.exc = "none"

\* C11: zoom is in [0, 8] in every state of a constructed pad, whatever
\* integer the store's "zoom" key held.
C11_ZoomRange == pc = "ready" => zoom \in 0..MaxZoom

\* The pad a load of the store as it is now would give: the state last
\* persisted to or loaded from it.
Persisted == LoadExisting(fs[Path], <<>>, 0, FALSE)

\* The notes and the zoom in memory are those of the store.
InSync == FieldsOf(notes) = FieldsOf(Persisted.notes) /\ zoom = Persisted.zoom

\* C12 as stated: dirty is true exactly when the notes or the zoom in memory
\* differ from the state last persisted or loaded.
C12_DirtyExact == pc = "ready" => (dirty <=> ~InSync)

\* C12 amended: whenever the notes or the zoom in memory differ from the state
\* last persisted or loaded, dirty is true; dirty may also be true of a pad
\* that equals its store.
C12_DirtyCoversChanges == (pc = "ready" /\ ~InSync) => dirty

\* toggle_favorite has changed a pad that was in step with its store.
C12_Witness ==
    /\ Called("toggle_favorite")
    /\ pc = "ready"
    /\ ~pre.dirty
    /\ pre.store = fs[Path]
    /\ ~InSync
    /\ dirty

C14_ToggleFavoriteInvolution ==
    Called("toggle_favorite")
        => /\ last.exc = "none"
           /\ notes = [pre.notes EXCEPT ![At].favorite = ~pre.notes[At].favorite]
           /\ notes[At].favorite # pre.notes[At].favorite
           /\ zoom = pre.zoom
           /\ toggle_favorite(notes, selected, dirty, last.index).exc = "none"
           /\ toggle_favorite(notes, selected, dirty, last.index).notes = pre.notes

\* toggle_favorite has cleared the flag of a favourite among several notes.
C14_Witness ==
    /\ Called("toggle_favorite")
    /\ Len(notes) > 1
    /\ pre.notes[At].favorite
    /\ ~notes[At].favorite

\* C15: where notes[i] has a neighbour of the same pinned group, j = move_up(i)
\* then move_down(j) returns i and gives the original order back, and so does
\* j = move_down(i) then move_up(j).
C15_MoveRoundTrip ==
    /\ (Called("move_up") /\ At > 1 /\ pre.notes[At].pinned = pre.notes[At - 1].pinned)
          => LET back == move_down(notes, selected, dirty, last.ret) IN
             /\ last.ret = last.index - 1
             /\ notes[At - 1].id = pre.notes[At].id
             /\ back.exc = "none"
             /\ back.ret = last.index
             /\ back.notes = pre.notes
    /\ (Called("move_down") /\ At < Len(pre.notes)
            /\ pre.notes[At].pinned = pre.notes[At + 1].pinned)
          => LET back == move_up(notes, selected, dirty, last.ret) IN
             /\ last.ret = last.index + 1
             /\ notes[At + 1].id = pre.notes[At].id
             /\ back.exc = "none"
             /\ back.ret = last.index
             /\ back.notes = pre.notes

\* move_down(0) on three unpinned notes a, b, c has returned 1 and left b, a, c.
C15_Witness ==
    /\ Called("move_down")
    /\ last.index = 0
    /\ last.ret = 1
    /\ Len(notes) = 3
    /\ \A i \in 1..3 : ~notes[i].pinned
    /\ <<notes[1].id, notes[2].id, notes[3].id>> = <<pre.notes[2].id, pre.notes[1].id, pre.notes[3].id>>

\* C16: as test_zoom asserts, a pad constructed over an absent store has
\* zoom 1, zoom_in takes 1 to 2, zoom_out takes 2 to 1, and zoom_out at 1
\* leaves 1.
C16_TestZoom ==
    /\ (last.op = "load" /\ pc = "ready" /\ pre.store.kind = "absent") => zoom = 1
    /\ (last.op = "zoom_in" /\ pre.zoom = 1) => zoom = 2
    /\ (last.op = "zoom_out" /\ pre.zoom = 2) => zoom = 1
    /\ (last.op = "zoom_out" /\ pre.zoom = 1) => zoom = 1

\* C17: move_left at indent 0, move_right at indent MAX_INDENT, zoom_in at
\* zoom 8 and zoom_out at zoom 0 leave dirty as it was; these four operations
\* set dirty only when the indent or the zoom changed.
C17_SaturationKeepsClean ==
    /\ (Called("move_left") /\ notes[At].indent = pre.notes[At].indent) => dirty = pre.dirty
    /\ (Called("move_right") /\ notes[At].indent = pre.notes[At].indent) => dirty = pre.dirty
    /\ (last.op \in {"zoom_in", "zoom_out"} /\ zoom = pre.zoom) => dirty = pre.dirty

\* C18: after the loop has handled Alt+p on a pad with notes, selected is the
\* index of the very note whose pinned flag was flipped.
C18_SelectionFollowsNote ==
    last.op = "alt_p" => notes[selected + 1].id = pre.notes[pre.selected + 1].id

\* C19: whenever the loop has ended on Ctrl+Q, save was called first: dirty is
\* false and the store holds the notes and the zoom in memory.
C19_CtrlQSavesThenQuits ==
    (pc = "exited" /\ last.op = "ctrl_q")
        => (~dirty /\ fs[Path] = Doc(Serialize(notes, zoom)))

\* C20: while main of memo_pad.py waits for a key, selected_idx is a valid
\* index of memos if there are memos and 0 if there are none; the delete key
\* never indexes outside the list; up and down move the selection by one
\* modulo len(memos).
C20_SelectedIdxValid ==
    /\ memo_pc = "loop" =>
          IF memos = <<>> THEN selected_idx = 0
          ELSE selected_idx \in 0..(Len(memos) - 1)
    /\ last.op = "memo_delete" => (last.index \in 0..(last.ret - 1) /\ last.exc # "IndexError")
    /\ last.op = "memo_down" =>
          selected_idx = (IF last.index = Len(memos) - 1 THEN 0 ELSE last.index + 1)
    /\ last.op = "memo_up" =>
          selected_idx = (IF last.index = 0 THEN Len(memos) - 1 ELSE last.index - 1)

\* The last memo of several was selected and deleted, and the selection is
\* on the memo that is last now.
C20_Witness ==
    /\ last.op = "memo_delete"
    /\ last.exc = "none"
    /\ memo_pc = "loop"
    /\ last.index = Len(memos)
    /\ Len(memos) >= 1
    /\ selected_idx = Len(memos) - 1
    /\ data_file = DataFile(memos)

====
